---- MODULE Spec2Model ----
(***************************************************************************)
(* Model of containers/archive/stl_types.hpp: the serializers (operator<<) *)
(* and deserializers for std::pair, std::map, std::set, std::string,       *)
(* std::vector and std::list, over a write_message_t sink and a            *)
(* read_stream_t source.                                                   *)
(*                                                                         *)
(* A stream is a sequence of bytes.  A 64-bit scalar is modelled as a word *)
(* of WordBytes bytes of ByteBits bits each (little endian), read as       *)
(* unsigned (uint64_t) or as two's complement (int64_t).                   *)
(***************************************************************************)
EXTENDS Integers, Sequences, FiniteSets, TLC

VARIABLES msg, written, phase, data, errAt, pos, calls

vars == <<msg, written, phase, data, errAt, pos, calls>>

\* ------------------------------------------------------------------ bounds
ByteBits == 2
WordBytes == 2
MaxChar == 1
MaxStrLen == 1
MaxNum == 1
MaxCount == 2
MaxWrites == 2

ByteBase == 2 ^ ByteBits
WordMod == ByteBase ^ WordBytes
\* the largest uint64_t, and the largest int64_t
WordMax == WordMod - 1
IntMax == (WordMod \div 2) - 1

\* ------------------------------------------------------------- result codes
\* the archive result codes the deserializers return
ARCHIVE_SUCCESS == 0
ARCHIVE_SOCK_ERROR == 0 - 1
ARCHIVE_SOCK_EOF == 0 - 2
ARCHIVE_RANGE_ERROR == 0 - 3

\* no hard error pending in the source
NoErr == 0 - 1

\* ------------------------------------------------------ template instances
\* The instantiations of the templates that the model exercises.
Types ==
    {"u64", "str", "pair_u64_str", "map_u64_str", "set_u64", "vec_u64",
     "list_u64", "list_pair_u64_str"}

Kind(t) ==
    CASE t = "u64" -> "scalar"
      [] t = "str" -> "string"
      [] t = "pair_u64_str" -> "pair"
      [] t = "map_u64_str" -> "map"
      [] t = "set_u64" -> "set"
      [] t = "vec_u64" -> "vector"
      [] t = "list_u64" -> "list"
      [] t = "list_pair_u64_str" -> "list"

\* T of std::set<T>, std::vector<T>, std::list<T>; std::pair<K, V> of std::map<K, V>
ElemT(t) ==
    CASE t = "map_u64_str" -> "pair_u64_str"
      [] t = "set_u64" -> "u64"
      [] t = "vec_u64" -> "u64"
      [] t = "list_u64" -> "u64"
      [] t = "list_pair_u64_str" -> "pair_u64_str"

\* T and U of std::pair<T, U>
FirstT(t) == "u64"
SecondT(t) == "str"

\* T(): the value-initialized object of each type
Default(t) ==
    CASE Kind(t) = "scalar" -> 0
      [] Kind(t) = "pair" -> <<0, <<>>>>
      [] OTHER -> <<>>

\* ------------------------------------------------------------ scalar codec
RECURSIVE WordToBytes(_, _)
WordToBytes(x, n) ==
    IF n = 0 THEN <<>> ELSE <<x % ByteBase>> \o WordToBytes(x \div ByteBase, n - 1)

RECURSIVE BytesToWord(_)
BytesToWord(bs) ==
    IF bs = <<>> THEN 0 ELSE Head(bs) + ByteBase * BytesToWord(Tail(bs))

\* the bit pattern of an int64_t, and the int64_t of a bit pattern
ToUnsigned(x) == x % WordMod
ToSigned(raw) == IF raw > IntMax THEN raw - WordMod ELSE raw

\* msg << x for a 64-bit integer x
serialize_word(x) == WordToBytes(ToUnsigned(x), WordBytes)

\* ------------------------------------------------------------- serializers
RECURSIVE serialize(_, _)
RECURSIVE serialize_elements(_, _)

\* the loop "for (it = begin; it != end; ++it) msg << *it" of the container writers
serialize_elements(t, c) ==
    IF c = <<>> THEN <<>>
    ELSE serialize(t, Head(c)) \o serialize_elements(t, Tail(c))

\* a pair writer that appends second before first
serialize_pair_swapped(t, p) ==
    serialize(SecondT(t), p[2]) \o serialize(FirstT(t), p[1])

\* operator<<(write_message_t &, const std::pair<T, U> &)
serialize_pair(t, p) ==
    serialize(FirstT(t), p[1]) \o serialize(SecondT(t), p[2])

\* operator<<(write_message_t &, const std::map<K, V> &): m in iteration order
serialize_map(t, m) ==
    serialize_word(Len(m)) \o serialize_elements(ElemT(t), m)

\* operator<<(write_message_t &, const std::set<T> &): s in iteration order
serialize_set(t, s) ==
    serialize_word(Len(s)) \o serialize_elements(ElemT(t), s)

\* operator<<(write_message_t &, const std::string &)
serialize_string(s) ==
    serialize_word(Len(s)) \o s

\* operator<<(write_message_t &, const std::vector<T> &)
serialize_vector(t, v) ==
    serialize_word(Len(v)) \o serialize_elements(ElemT(t), v)

\* operator<<(write_message_t &, const std::list<T> &)
serialize_list(t, v) ==
    serialize_word(Len(v)) \o serialize_elements(ElemT(t), v)

\* overload resolution of msg << v
serialize(t, v) ==
    CASE Kind(t) = "scalar" -> serialize_word(v)
      [] Kind(t) = "string" -> serialize_string(v)
      [] Kind(t) = "pair" -> serialize_pair(t, v)
      [] Kind(t) = "map" -> serialize_map(t, v)
      [] Kind(t) = "set" -> serialize_set(t, v)
      [] Kind(t) = "vector" -> serialize_vector(t, v)
      [] Kind(t) = "list" -> serialize_list(t, v)

\* ------------------------------------------------------------------ source
\* The state of one deserialize call: the read_stream_t (data, errAt, pos), the
\* memory the std::vector deserializer writes (vec is the object at v, oob the
\* offsets i >= 1 of the objects at v + i it has written), and a record of what
\* the call did: the number of reads from the source, the sizes allocated with
\* the bytes the source still held at that time, and the first nested failure.
NewCall(d, e, p, v, u) ==
    [data |-> d, errAt |-> e, pos |-> p, reads |-> 0, allocs |-> <<>>,
     fail |-> <<>>, crashed |-> FALSE, ub |-> u, vec |-> v, oob |-> {}]

\* what a deserializer hands back: its return value, its destination, the state
Ret(res, out, st) == [res |-> res, out |-> out, st |-> st]

\* the position at which the source stops supplying bytes
Limit(st) == IF st.errAt = NoErr THEN Len(st.data) ELSE st.errAt

\* force_read(s, buf, n): reads until n bytes are there, the source ends (the
\* number read so far is returned) or the source fails (-1 is returned)
force_read(st, n) ==
    IF n = 0 THEN [num |-> 0, buf |-> <<>>, st |-> st]
    ELSE
      LET avail == Limit(st) - st.pos
          got == IF avail < n THEN avail ELSE n
          st1 == [st EXCEPT !.pos = @ + got, !.reads = @ + 1]
          buf == SubSeq(st.data, st.pos + 1, st.pos + got)
      IN  IF avail >= n THEN [num |-> n, buf |-> buf, st |-> st1]
          ELSE IF st.errAt # NoErr THEN [num |-> 0 - 1, buf |-> buf, st |-> st1]
          ELSE [num |-> avail, buf |-> buf, st |-> st1]

\* the first non-zero code a deserializer produced by itself, and where
Failed(st, code) ==
    IF st.fail # <<>> THEN st
    ELSE [st EXCEPT !.fail = <<[code |-> code, pos |-> st.pos, reads |-> st.reads]>>]

\* storage for n elements is requested
Alloc(st, n) ==
    [st EXCEPT !.allocs = Append(@, [size |-> n, left |-> Limit(st) - st.pos])]

\* deserialize(read_stream_t *, uint64_t *) and deserialize(read_stream_t *, int64_t *)
deserialize_word(st, prior, signed) ==
    LET r == force_read(st, WordBytes)
        raw == BytesToWord(r.buf)
    IN  IF r.num = 0 - 1 THEN Ret(ARCHIVE_SOCK_ERROR, prior, Failed(r.st, ARCHIVE_SOCK_ERROR))
        ELSE IF r.num < WordBytes THEN Ret(ARCHIVE_SOCK_EOF, prior, Failed(r.st, ARCHIVE_SOCK_EOF))
        ELSE Ret(ARCHIVE_SUCCESS, IF signed THEN ToSigned(raw) ELSE raw, r.st)

\* ------------------------------------------------------ ordered containers
\* A std::map is the sequence of its (key, value) pairs in iteration order, a
\* std::set the sequence of its elements in iteration order; an iterator is an
\* index, end() being one past the last.
InsertAt(c, at, x) == SubSeq(c, 1, at - 1) \o <<x>> \o SubSeq(c, at, Len(c))

\* lower_bound: the first position whose key is not less than k
MapLowerBound(m, k) ==
    CHOOSE i \in 1..(Len(m) + 1) :
        /\ (i = Len(m) + 1 \/ m[i][1] >= k)
        /\ \A j \in 1..(i - 1) : m[j][1] < k

SetLowerBound(c, k) ==
    CHOOSE i \in 1..(Len(c) + 1) :
        /\ (i = Len(c) + 1 \/ c[i] >= k)
        /\ \A j \in 1..(i - 1) : c[j] < k

\* an insert that trusts the hint: the pair goes right behind the element the
\* hint names, wherever its key belongs
map_insert_trusting_hint(m, position, p) ==
    LET at == IF m = <<>> THEN 1 ELSE position + 1
    IN  [c |-> InsertAt(m, at, p), position |-> at]

\* an insert that replaces the value of a key the map already holds
map_insert_overwriting(m, position, p) ==
    LET at == MapLowerBound(m, p[1])
    IN  IF at <= Len(m) /\ m[at][1] = p[1]
        THEN [c |-> [m EXCEPT ![at] = p], position |-> at]
        ELSE [c |-> InsertAt(m, at, p), position |-> at]

\* m->insert(position, p): the hint is used when p belongs right before it, the
\* tree is searched otherwise; an existing key is left alone. The iterator to
\* the element with p's key is returned.
map_insert(m, position, p) ==
    LET k == p[1]
        hinted == /\ (position = Len(m) + 1 \/ k < m[position][1])
                  /\ (position = 1 \/ m[position - 1][1] < k)
        at == IF hinted THEN position ELSE MapLowerBound(m, k)
    IN  IF at <= Len(m) /\ m[at][1] = k THEN [c |-> m, position |-> at]
        ELSE [c |-> InsertAt(m, at, p), position |-> at]

\* out->insert(position, value)
set_insert(c, position, value) ==
    LET hinted == /\ (position = Len(c) + 1 \/ value < c[position])
                  /\ (position = 1 \/ c[position - 1] < value)
        at == IF hinted THEN position ELSE SetLowerBound(c, value)
    IN  IF at <= Len(c) /\ c[at] = value THEN [c |-> c, position |-> at]
        ELSE [c |-> InsertAt(c, at, value), position |-> at]

\* ----------------------------------------------------------- deserializers
RECURSIVE deserialize(_, _, _)
RECURSIVE map_loop(_, _, _, _, _, _)
RECURSIVE set_loop(_, _, _, _, _, _)
RECURSIVE list_loop(_, _, _, _, _)
RECURSIVE deserialize_vector(_, _, _)
RECURSIVE vector_loop(_, _, _, _, _)

\* a pair reader that goes on to second after first has failed
deserialize_pair_no_early_return(t, st, prior) ==
    LET a == deserialize(FirstT(t), st, prior[1])
        b == deserialize(SecondT(t), a.st, prior[2])
    IN  Ret(b.res, <<a.out, b.out>>, b.st)

\* deserialize(read_stream_t *, std::pair<T, U> *)
deserialize_pair(t, st, prior) ==
    LET a == deserialize(FirstT(t), st, prior[1])
    IN  IF a.res # 0 THEN Ret(a.res, <<a.out, prior[2]>>, a.st)
        ELSE LET b == deserialize(SecondT(t), a.st, prior[2])
             IN  Ret(b.res, <<a.out, b.out>>, b.st)

\* a map loop whose insert trusts the hint
map_loop_trusting_hint(t, i, sz, m, position, st) ==
    IF ~(i < sz) THEN Ret(0, m, st)
    ELSE LET r == deserialize(ElemT(t), st, Default(ElemT(t)))
         IN  IF r.res # 0 THEN Ret(r.res, m, r.st)
             ELSE LET ins == map_insert_trusting_hint(m, position, r.out)
                  IN  map_loop(t, i + 1, sz, ins.c, ins.position, r.st)

\* a map loop that stores with m[p.first] = p.second
map_loop_overwriting(t, i, sz, m, position, st) ==
    IF ~(i < sz) THEN Ret(0, m, st)
    ELSE LET r == deserialize(ElemT(t), st, Default(ElemT(t)))
         IN  IF r.res # 0 THEN Ret(r.res, m, r.st)
             ELSE LET ins == map_insert_overwriting(m, position, r.out)
                  IN  map_loop(t, i + 1, sz, ins.c, ins.position, r.st)

\* the loop of the std::map deserializer
map_loop(t, i, sz, m, position, st) ==
    IF ~(i < sz) THEN Ret(0, m, st)
    ELSE LET r == deserialize(ElemT(t), st, Default(ElemT(t)))
         IN  IF r.res # 0 THEN Ret(r.res, m, r.st)
             ELSE LET ins == map_insert(m, position, r.out)
                  IN  map_loop(t, i + 1, sz, ins.c, ins.position, r.st)

\* deserialize(read_stream_t *, std::map<K, V> *)
deserialize_map(t, st, prior) ==
    LET r == deserialize_word(st, 0, FALSE)
    IN  IF r.res # 0 THEN Ret(r.res, <<>>, r.st)
        ELSE map_loop(t, 0, r.out, <<>>, 1, r.st)

\* the loop of the std::set deserializer
set_loop(t, i, sz, out, position, st) ==
    IF ~(i < sz) THEN Ret(0, out, st)
    ELSE LET r == deserialize(ElemT(t), st, Default(ElemT(t)))
         IN  IF r.res # 0 THEN Ret(r.res, out, r.st)
             ELSE LET ins == set_insert(out, position, r.out)
                  IN  set_loop(t, i + 1, sz, ins.c, ins.position, r.st)

\* deserialize(read_stream_t *, std::set<T> *)
deserialize_set(t, st, prior) ==
    LET r == deserialize_word(st, 0, FALSE)
    IN  IF r.res # 0 THEN Ret(r.res, <<>>, r.st)
        ELSE set_loop(t, 0, r.out, <<>>, 1, r.st)

\* a string reader without the check for a negative length: the length is used
\* as the size_t it converts to
deserialize_string_no_sign_check(st, prior) ==
    LET r == deserialize_word(st, 0, TRUE)
        sz == r.out
        n == ToUnsigned(sz)
    IN  IF r.res # 0 THEN Ret(r.res, <<>>, r.st)
        ELSE LET f == force_read(Alloc(r.st, n), n)
             IN  IF f.num = 0 - 1
                 THEN Ret(ARCHIVE_SOCK_ERROR, <<>>, Failed(f.st, ARCHIVE_SOCK_ERROR))
                 ELSE IF f.num < sz
                 THEN Ret(ARCHIVE_SOCK_EOF, <<>>, Failed(f.st, ARCHIVE_SOCK_EOF))
                 ELSE Ret(0, f.buf, f.st)

\* a string reader without the check for a short payload
deserialize_string_no_short_check(st, prior) ==
    LET r == deserialize_word(st, 0, TRUE)
        sz == r.out
    IN  IF r.res # 0 THEN Ret(r.res, <<>>, r.st)
        ELSE IF sz < 0 THEN Ret(ARCHIVE_RANGE_ERROR, <<>>, Failed(r.st, ARCHIVE_RANGE_ERROR))
        ELSE LET f == force_read(Alloc(r.st, sz), sz)
             IN  IF f.num = 0 - 1
                 THEN Ret(ARCHIVE_SOCK_ERROR, <<>>, Failed(f.st, ARCHIVE_SOCK_ERROR))
                 ELSE Ret(0, f.buf, f.st)

\* deserialize(read_stream_t *, std::string *)
deserialize_string(st, prior) ==
    LET r == deserialize_word(st, 0, TRUE)
        sz == r.out
    IN  IF r.res # 0 THEN Ret(r.res, <<>>, r.st)
        ELSE IF sz < 0 THEN Ret(ARCHIVE_RANGE_ERROR, <<>>, Failed(r.st, ARCHIVE_RANGE_ERROR))
        ELSE LET f == force_read(Alloc(r.st, sz), sz)
             IN  IF f.num = 0 - 1
                 THEN Ret(ARCHIVE_SOCK_ERROR, <<>>, Failed(f.st, ARCHIVE_SOCK_ERROR))
                 ELSE IF f.num < sz
                 THEN Ret(ARCHIVE_SOCK_EOF, <<>>, Failed(f.st, ARCHIVE_SOCK_EOF))
                 ELSE Ret(0, f.buf, f.st)

\* An access to the std::vector object at v + slot. v + 0 is the destination;
\* v + slot for slot >= 1 is whatever lies behind it, and using it as a vector is
\* undefined: the program stops (ub = "crash") or that memory is overwritten.
Touch(st, slot) ==
    IF slot = 0 THEN st
    ELSE IF st.ub = "crash" THEN [st EXCEPT !.crashed = TRUE]
    ELSE [st EXCEPT !.oob = @ \cup {slot}]

\* the loop of the std::vector deserializer: &v[i] is v + i, a std::vector<T> *,
\* so the element decode is this same function on the object at v + i
vector_loop(t, slot, i, sz, st) ==
    IF ~(i < sz) THEN Ret(0, st.vec, st)
    ELSE LET r == deserialize_vector(t, slot + i, st)
         IN  IF r.st.crashed \/ r.res # 0 THEN r
             ELSE vector_loop(t, slot, i + 1, sz, r.st)

\* deserialize(read_stream_t *, std::vector<T> *), called on the object at v + slot
deserialize_vector(t, slot, st) ==
    LET st0 == Touch(st, slot)
        st1 == IF slot = 0 THEN [st0 EXCEPT !.vec = <<>>] ELSE st0
        r == deserialize_word(st1, 0, FALSE)
        sz == r.out
        st2 == Alloc(r.st, sz)
        st3 == IF slot = 0
               THEN [st2 EXCEPT !.vec = [j \in 1..sz |-> Default(ElemT(t))]]
               ELSE st2
    IN  IF st0.crashed THEN Ret(0, st0.vec, st0)
        ELSE IF r.res # 0 THEN Ret(r.res, r.st.vec, r.st)
        ELSE vector_loop(t, slot, 0, sz, st3)

\* the loop of the std::list deserializer
list_loop(t, i, sz, v, st) ==
    IF ~(i < sz) THEN Ret(0, v, st)
    ELSE LET r == deserialize(ElemT(t), st, Default(ElemT(t)))
         IN  IF r.res # 0 THEN Ret(r.res, Append(v, r.out), r.st)
             ELSE list_loop(t, i + 1, sz, Append(v, r.out), r.st)

\* deserialize(read_stream_t *, std::list<T> *)
deserialize_list(t, st, prior) ==
    LET r == deserialize_word(st, 0, FALSE)
    IN  IF r.res # 0 THEN Ret(r.res, prior, r.st)
        ELSE list_loop(t, 0, r.out, prior, r.st)

\* overload resolution of deserialize(s, &x)
deserialize(t, st, prior) ==
    CASE Kind(t) = "scalar" -> deserialize_word(st, prior, FALSE)
      [] Kind(t) = "string" -> deserialize_string(st, prior)
      [] Kind(t) = "pair" -> deserialize_pair(t, st, prior)
      [] Kind(t) = "map" -> deserialize_map(t, st, prior)
      [] Kind(t) = "set" -> deserialize_set(t, st, prior)
      [] Kind(t) = "vector" -> deserialize_vector(t, 0, [st EXCEPT !.vec = prior])
      [] Kind(t) = "list" -> deserialize_list(t, st, prior)

\* ------------------------------------------------------------------ values
\* the values handed to the serializers, and the destinations handed to the
\* deserializers
SeqsUpTo(S, n) == {<<>>} \cup UNION {[1..k -> S] : k \in 1..n}

Strings == SeqsUpTo(1..MaxChar, MaxStrLen)

\* the keys and elements of containers, and the scalars written alone or as
\* the first of a pair: small numbers, and the words around the sign change
Pairs == (0..MaxNum) \X Strings

Words == (0..MaxNum) \cup {IntMax, IntMax + 1, WordMax}

Values(t) ==
    CASE t = "u64" -> Words
      [] t = "str" -> Strings
      [] t = "pair_u64_str" -> Words \X Strings
      [] t = "map_u64_str" ->
            {m \in SeqsUpTo(Pairs, MaxCount) :
                \A i \in 1..(Len(m) - 1) : m[i][1] < m[i + 1][1]}
      [] t = "set_u64" ->
            {c \in SeqsUpTo(0..MaxNum, MaxCount) :
                \A i \in 1..(Len(c) - 1) : c[i] < c[i + 1]}
      [] t = "vec_u64" -> SeqsUpTo(0..MaxNum, MaxCount)
      [] t = "list_u64" -> SeqsUpTo(0..MaxNum, MaxCount)
      [] t = "list_pair_u64_str" -> SeqsUpTo(Pairs, MaxCount)

\* a destination that already holds something
Dirty(t) ==
    CASE t = "u64" -> 1
      [] t = "str" -> <<1>>
      [] t = "pair_u64_str" -> <<1, <<1>>>>
      [] t = "map_u64_str" -> <<<<1, <<1>>>>>>
      [] t = "set_u64" -> <<1>>
      [] t = "vec_u64" -> <<1>>
      [] t = "list_u64" -> <<1>>
      [] t = "list_pair_u64_str" -> <<<<1, <<1>>>>>>

Priors(t) == {Default(t), Dirty(t)}

\* ----------------------------------------------------------- state machine
\* msg      the bytes appended to the write_message_t
\* written  the values serialized into msg, in order, each <<type, value>>
\* phase    "write" while msg is being built, "read" once it is a read_stream_t
\* data     the bytes the read_stream_t holds
\* errAt    the position at which the read_stream_t fails, or NoErr
\* pos      the number of bytes read from the read_stream_t
\* calls    the deserialize calls made on the read_stream_t, in order, each
\*          <<type, what the call was given, did and returned>>
Init ==
    /\ msg = <<>>
    /\ written = <<>>
    /\ phase = "write"
    /\ data = <<>>
    /\ errAt = NoErr
    /\ pos = 0
    /\ calls = <<>>

\* the message is still being written and holds fewer than max values
CanWrite(max) ==
    /\ phase = "write"
    /\ Len(written) < max

\* msg << v
Write(t, v) ==
    /\ msg' = msg \o serialize(t, v)
    /\ written' = Append(written, <<t, v>>)
    /\ UNCHANGED <<phase, data, errAt, pos, calls>>

WriteScalar == CanWrite(1) /\ \E v \in Values("u64") : Write("u64", v)
WriteString == CanWrite(1) /\ \E v \in Values("str") : Write("str", v)
WritePair == CanWrite(1) /\ \E v \in Values("pair_u64_str") : Write("pair_u64_str", v)
WriteMap == CanWrite(1) /\ \E v \in Values("map_u64_str") : Write("map_u64_str", v)
WriteSet == CanWrite(1) /\ \E v \in Values("set_u64") : Write("set_u64", v)
WriteVector == CanWrite(1) /\ \E v \in Values("vec_u64") : Write("vec_u64", v)
WriteList == CanWrite(1) /\ \E v \in Values("list_u64") : Write("list_u64", v)

\* the message reaches the reader: whole, cut short, or over a source that
\* fails at some position
Open(d, e) ==
    /\ phase = "write"
    /\ written # <<>>
    /\ phase' = "read"
    /\ data' = d
    /\ errAt' = e
    /\ pos' = 0
    /\ UNCHANGED <<msg, written, calls>>

Deliver == Open(msg, NoErr)
Truncate == \E n \in 0..(Len(msg) - 1) : Open(SubSeq(msg, 1, n), NoErr)
SourceError == \E n \in 0..Len(msg) : Open(msg, n)

\* res = deserialize(s, &x), x holding prior, on a stream on which fewer than
\* max calls were made, the last of which returned 0
Read(t, prior, ub, max) ==
    /\ phase = "read"
    /\ Len(calls) < max
    /\ calls # <<>> => (calls[Len(calls)][2].res = 0 /\ ~calls[Len(calls)][2].crashed)
    /\ \E r \in {deserialize(t, NewCall(data, errAt, pos, <<>>, ub), prior)} :
           /\ pos' = r.st.pos
           /\ calls' = Append(calls,
                 <<t, [prior |-> prior, pos0 |-> pos, res |-> r.res,
                       out |-> r.out, pos1 |-> r.st.pos, reads |-> r.st.reads,
                       allocs |-> r.st.allocs, fail |-> r.st.fail,
                       crashed |-> r.st.crashed, oob |-> r.st.oob]>>)
    /\ UNCHANGED <<msg, written, phase, data, errAt>>

ReadScalar == \E p \in Priors("u64") : Read("u64", p, "none", 1)
ReadString == \E p \in Priors("str") : Read("str", p, "none", 1)
ReadPair == \E p \in Priors("pair_u64_str") : Read("pair_u64_str", p, "none", 1)
ReadMap == \E p \in Priors("map_u64_str") : Read("map_u64_str", p, "none", 1)
ReadSet == \E p \in Priors("set_u64") : Read("set_u64", p, "none", 1)
ReadVector ==
    \E p \in Priors("vec_u64") : \E ub \in {"crash", "clobber"} :
        Read("vec_u64", p, ub, 1)
ReadList ==
    \E t \in {"list_u64", "list_pair_u64_str"} : \E p \in Priors(t) :
        Read(t, p, "none", 1)

Next ==
    \/ WriteScalar
    \/ WriteString
    \/ WritePair
    \/ WriteMap
    \/ WriteSet
    \/ WriteVector
    \/ WriteList
    \/ Deliver
    \/ Truncate
    \/ SourceError
    \/ ReadScalar
    \/ ReadString
    \/ ReadPair
    \/ ReadMap
    \/ ReadSet
    \/ ReadVector
    \/ ReadList

\* One message of one value, delivered whole or faulty, read by any deserializer.
Spec == Init /\ [][Next]_vars

\* One message of one value of any type, a std::list of pairs included (the
\* bytes of a map stream whose keys are in any order and may repeat), delivered
\* whole and read by any deserializer.
WholeWrite == CanWrite(1) /\ \E t \in Types : \E v \in Values(t) : Write(t, v)

WholeRead ==
    \E t \in Types : \E p \in Priors(t) : \E ub \in {"crash", "clobber"} :
        Read(t, p, ub, 1)

WholeNext ==
    \/ WholeWrite
    \/ Deliver
    \/ WholeRead

WholeSpec == Init /\ [][WholeNext]_vars

\* Several values written one after another into one message, delivered whole,
\* and read back by the deserializers of their types, in order, each into a
\* value-initialized destination.
SeqWrite == CanWrite(MaxWrites) /\ \E t \in Types : \E v \in Values(t) : Write(t, v)

SeqRead ==
    /\ Len(calls) < Len(written)
    /\ \E ub \in {"crash", "clobber"} :
          LET t == written[Len(calls) + 1][1]
          IN  Read(t, Default(t), ub, MaxWrites)

SeqNext ==
    \/ SeqWrite
    \/ Deliver
    \/ SeqRead

SeqSpec == Init /\ [][SeqNext]_vars

\* ------------------------------------------------------------- properties
\* the stream is the message as it was written, on a source that does not fail
Intact == data = msg /\ errAt = NoErr

\* the i-th call was made on the whole message, by the deserializer of type t,
\* the message holding one value of a type among ts
FirstCallOn(i, t, ts) ==
    /\ i = 1
    /\ Intact
    /\ calls[i][1] = t
    /\ written[1][1] \in ts

Range(c) == {c[j] : j \in DOMAIN c}
Keys(m) == {m[j][1] : j \in DOMAIN m}
Composite(t) == Kind(t) \in {"pair", "map", "set", "vector", "list"}

\* the length field a string call found, when the source supplied all of it
PrefixRead(c) ==
    c.pos0 + WordBytes <= (IF errAt = NoErr THEN Len(data) ELSE errAt)
PrefixValue(c) == ToSigned(BytesToWord(SubSeq(data, c.pos0 + 1, c.pos0 + WordBytes)))
\* the bytes the source supplies behind the length field
PayloadAvail(c) ==
    (IF errAt = NoErr THEN Len(data) ELSE errAt) - (c.pos0 + WordBytes)

\* C1: decoding the encoding of a vector v into a vector returns 0 and leaves the
\* destination equal to v, element i decoded into slot i of the destination.
C1_VectorRoundTrip ==
    \A i \in DOMAIN calls :
        FirstCallOn(i, "vec_u64", {"vec_u64"}) =>
            /\ ~calls[i][2].crashed
            /\ calls[i][2].oob = {}
            /\ calls[i][2].res = 0
            /\ calls[i][2].out = written[1][2]

\* C2: for a pair, a string, a set, a map and a list, decoding the encoding of v
\* into a value-initialized destination returns 0 and yields v; a decoded map is
\* in ascending key order.
C2_RoundTrip ==
    \A i \in DOMAIN calls :
        \A t \in {"pair_u64_str", "str", "set_u64", "map_u64_str", "list_u64",
                  "list_pair_u64_str"} :
            (FirstCallOn(i, t, {t}) /\ calls[i][2].prior = Default(t)) =>
                /\ calls[i][2].res = 0
                /\ calls[i][2].out = written[1][2]
                /\ t = "map_u64_str" =>
                      \A j \in 1..(Len(calls[i][2].out) - 1) :
                          calls[i][2].out[j][1] < calls[i][2].out[j + 1][1]

C2_Witness ==
    /\ calls # <<>>
    /\ FirstCallOn(1, "map_u64_str", {"map_u64_str"})
    /\ calls[1][2].prior = Default("map_u64_str")
    /\ Len(written[1][2]) = 2
    /\ written[1][2][1][2] # written[1][2][2][2]
    /\ calls[1][2].res = 0

\* C3: a string decode that reads a negative length returns -3, reads nothing
\* behind the length field, allocates nothing and leaves the destination empty.
C3_NegativeLength ==
    \A i \in DOMAIN calls :
        LET c == calls[i][2]
        IN  (calls[i][1] = "str" /\ PrefixRead(c) /\ PrefixValue(c) < 0) =>
                /\ c.res = ARCHIVE_RANGE_ERROR
                /\ c.pos1 = c.pos0 + WordBytes
                /\ c.reads = 1
                /\ c.allocs = <<>>
                /\ c.out = <<>>

C3_Witness ==
    /\ calls # <<>>
    /\ calls[1][1] = "str"
    /\ calls[1][2].prior = Dirty("str")
    /\ PrefixRead(calls[1][2])
    /\ PrefixValue(calls[1][2]) < 0
    /\ Len(data) > WordBytes
    /\ calls[1][2].res = ARCHIVE_RANGE_ERROR

C5_FirstFailureWins ==
    \A i \in DOMAIN calls :
        LET c == calls[i][2]
        IN  (Composite(calls[i][1]) /\ ~c.crashed) =>
                /\ c.fail # <<>> =>
                      /\ c.res = c.fail[1].code
                      /\ c.res # 0
                      /\ c.pos1 = c.fail[1].pos
                      /\ c.reads = c.fail[1].reads
                /\ c.fail = <<>> => c.res = 0

C5_Witness ==
    /\ calls # <<>>
    /\ calls[1][1] = "map_u64_str"
    /\ calls[1][2].res = ARCHIVE_SOCK_ERROR
    /\ Len(calls[1][2].out) = 1
    /\ calls[1][2].fail # <<>>
    /\ calls[1][2].fail[1].reads = calls[1][2].reads

\* C6: a successful list decode leaves the destination holding exactly the
\* elements of the stream, whatever it held before.
C6_ListDecodeClears ==
    \A i \in DOMAIN calls :
        \A t \in {"list_u64", "list_pair_u64_str"} :
            (FirstCallOn(i, t, {t}) /\ calls[i][2].res = 0) =>
                calls[i][2].out = written[1][2]

\* C7: a set or map decode of a count and that many elements, in any order and
\* with or without repeated keys, returns 0 and leaves exactly the distinct keys
\* of the stream, in ascending order.
C7_OrderedDecodeAnyInput ==
    \A i \in DOMAIN calls :
        LET c == calls[i][2]
        IN  /\ FirstCallOn(i, "set_u64", {"set_u64", "vec_u64", "list_u64"}) =>
                  /\ c.res = 0
                  /\ c.pos1 = Len(data)
                  /\ Range(c.out) = Range(written[1][2])
                  /\ \A j \in 1..(Len(c.out) - 1) : c.out[j] < c.out[j + 1]
            /\ FirstCallOn(i, "map_u64_str", {"map_u64_str", "list_pair_u64_str"}) =>
                  /\ c.res = 0
                  /\ c.pos1 = Len(data)
                  /\ Keys(c.out) = Keys(written[1][2])
                  /\ \A j \in 1..(Len(c.out) - 1) : c.out[j][1] < c.out[j + 1][1]

C7_Witness ==
    /\ calls # <<>>
    /\ FirstCallOn(1, "map_u64_str", {"list_pair_u64_str"})
    /\ Len(written[1][2]) = 2
    /\ written[1][2][1][1] > written[1][2][2][1]
    /\ calls[1][2].res = 0
    /\ Len(calls[1][2].out) = 2

\* C8: no decode call sizes a buffer or its destination to a declared length or
\* count larger than the bytes the source still holds.
C8_NoUnvalidatedAllocation ==
    \A i \in DOMAIN calls :
        \A j \in DOMAIN calls[i][2].allocs :
            calls[i][2].allocs[j].size <= calls[i][2].allocs[j].left

\* C9: values encoded one after another into one message are decoded by as many
\* calls, each returning 0 and yielding its value, the last leaving the source
\* with no unread byte.
C9_ExactConsumption ==
    (phase = "read" /\ Intact) =>
        /\ \A i \in DOMAIN calls :
              /\ ~calls[i][2].crashed
              /\ calls[i][2].res = 0
              /\ calls[i][1] = written[i][1]
              /\ calls[i][2].out = written[i][2]
        /\ Len(calls) = Len(written) => pos = Len(data)

\* C10: a map decode of a stream that repeats a key returns 0, reads all N pairs,
\* binds each key to the value of its first occurrence in the stream, and leaves
\* fewer than N entries.
C10_FirstOccurrenceKept ==
    \A i \in DOMAIN calls :
        LET c == calls[i][2]
            v == written[1][2]
        IN  (/\ FirstCallOn(i, "map_u64_str", {"list_pair_u64_str"})
             /\ \E a, b \in DOMAIN v : a < b /\ v[a][1] = v[b][1]) =>
                /\ c.res = 0
                /\ c.pos1 = Len(data)
                /\ Len(c.out) < Len(v)
                /\ \A j \in DOMAIN c.out :
                      \E a \in DOMAIN v :
                          /\ v[a] = c.out[j]
                          /\ \A b \in 1..(a - 1) : v[b][1] # v[a][1]

C10_Witness ==
    /\ calls # <<>>
    /\ FirstCallOn(1, "map_u64_str", {"list_pair_u64_str"})
    /\ Len(written[1][2]) = 2
    /\ written[1][2][1][1] = written[1][2][2][1]
    /\ written[1][2][1][2] # written[1][2][2][2]
    /\ calls[1][2].res = 0
    /\ Len(calls[1][2].out) = 1

====
